---- MODULE Spec2Model ----
(***************************************************************************)
(* State-machine model of src/virtual_pet.py: the VirtualPet widget (pet   *)
(* position, hunger, walking, attention dash, animations) and the Fish     *)
(* widget it owns.  Every Qt timer callback and mouse handler is one       *)
(* action; each handler is a pure operator on the record `pet`, named as   *)
(* in the source, and the action applies it.  random.* results and mouse   *)
(* deltas are inputs drawn from small sets.  Of the tray menu, set_scale is *)
(* an action of the specifications whose claims depend on the size of the  *)
(* pet, and scale_factor keeps its initial 1.0 in the others;              *)
(* close_application is left out.                                          *)
(***************************************************************************)
EXTENDS Integers, Sequences, FiniteSets, TLC

VARIABLES
    pet,           \* the VirtualPet instance: its fields, its window position,
                   \* its five SpriteAnimator cursors, its Fish, and the number
                   \* of QTimer.singleShot walk-backs still pending
    dragging,      \* environment: a mouse button is held down on the pet window
    hunger_ticks,  \* history: hunger-timer firings since start / last real feed
    anim_ticks,    \* history: animation-timer firings so far (bounded); in the
                   \* animation specification, firings since the last
                   \* set_animation, counted up to frame_count
    trip,          \* history of the walk under test (motion specification only):
                   \* ticks taken and the start offset to the target
    clock          \* the time left, in ms, until the attention timer and each
                   \* pending QTimer.singleShot fire (attention specification
                   \* only; the other specifications leave time out)

vars == <<pet, dragging, hunger_ticks, anim_ticks, trip, clock>>

----------------------------------------------------------------------------
(* Program constants *)

frame_width == 80
frame_height == 80
frame_count == 8
(* mutant: the pet walks at half the speed *)
walk_speed_slow == 1

walk_speed == 2
base_size == 32
hunger_threshold == 3
max_distance == 200
fish_inset == 50
attention_interval == 60000
(* mutant: the walk-back is deferred for longer than the attention period *)
walk_back_delay_long == 61000

walk_back_delay == 1000

(* Environment: QApplication.primaryScreen().geometry() *)
ScreenW == 200
ScreenH == 200

(* Bounds of the model *)
MaxHunger == 5
MaxAnimTicks == 1
MaxPending == 1
MotionRange == 4

AnimNames == {"idle_l", "idle_r", "walk_r", "walk_l", "meow"}

(* Values the model lets random.randint return (filtered by the real range) *)
InitXs == {100}
InitYs == {100}
WalkXs == {96, 100}
WalkYs == {100}
DashYs == {100}
FishXs == {50}
FishYs == {50}
(* Places the user drags the pet to: on screen, and wholly off the right edge *)
PetDragSpots == {<<100, 100>>, <<202, 100>>}

----------------------------------------------------------------------------
(* Arithmetic helpers *)

Abs(n) == IF n < 0 THEN -n ELSE n
Sq(n) == n * n
Min(a, b) == IF a < b THEN a ELSE b
Max(a, b) == IF a > b THEN a ELSE b

(* random.randint(lo, hi) restricted to the values in picks; *)
(* an empty range raises ValueError in the source             *)
RandInt(lo, hi, picks) == {v \in picks : lo <= v /\ v <= hi}

Width(s) == frame_width * s.scale_factor
Height(s) == frame_height * s.scale_factor

(* An unhandled exception in a slot ends the PyQt5 process *)
abort(s) == [s EXCEPT !.aborted = TRUE]

----------------------------------------------------------------------------
(* SpriteAnimator *)

(* mutant: the cursor is advanced without wrapping *)
next_frame_no_wrap(cursor) == [frame |-> cursor, current_frame |-> cursor + 1]

(* frame: the index of the frame returned; current_frame: the cursor after *)
next_frame(cursor) ==
    [frame |-> cursor, current_frame |-> (cursor + 1) % frame_count]

reset == 0

----------------------------------------------------------------------------
(* VirtualPet handlers, as functions of the state record s *)

(* the frame returned goes to the label; what the label shows is not kept *)
animate(s) ==
    [s EXCEPT !.current_frame[s.current_animator] = next_frame(@).current_frame]

set_animation(s, name) ==
    [s EXCEPT !.current_animator = name, !.current_frame[name] = reset]

(* The scales of the tray menu: 1x and 2x *)
Scales == {1, 2}

(* update_size resizes the window to frame size times the scale; the fish *)
(* that exists keeps the size it was made with                            *)
set_scale(s, scale) == [s EXCEPT !.scale_factor = scale]

(* mutant: a spawn request replaces the fish that exists *)
spawn_fish_always(s, fish_x, fish_y) ==
    [s EXCEPT !.fish =
        <<[x |-> fish_x, y |-> fish_y, size |-> base_size * s.scale_factor,
           being_dragged |-> FALSE]>>]

spawn_fish(s, fish_x, fish_y) ==
    IF s.fish = <<>>
    THEN LET fish_size == base_size * s.scale_factor
         IN IF fish_inset > ScreenW - fish_size - fish_inset
                \/ fish_inset > ScreenH - fish_size - fish_inset
            THEN abort([s EXCEPT !.fish =
                     <<[x |-> 0, y |-> 0, size |-> fish_size,
                        being_dragged |-> FALSE]>>])
            ELSE [s EXCEPT !.fish =
                     <<[x |-> fish_x, y |-> fish_y, size |-> fish_size,
                        being_dragged |-> FALSE]>>]
    ELSE s

get_hungry(s, fish_x, fish_y) ==
    spawn_fish(set_animation([s EXCEPT !.is_hungry = TRUE], "meow"),
               fish_x, fish_y)

(* mutant: hungry as soon as the counter reaches the threshold *)
increase_hunger_early(s, fish_x, fish_y) ==
    LET s1 == [s EXCEPT !.hunger = @ + 1]
    IN IF s1.hunger >= hunger_threshold
       THEN get_hungry(s1, fish_x, fish_y)
       ELSE s1

increase_hunger(s, fish_x, fish_y) ==
    LET s1 == [s EXCEPT !.hunger = @ + 1]
    IN IF s1.hunger > hunger_threshold
       THEN get_hungry(s1, fish_x, fish_y)
       ELSE s1

(* mutant: feeding takes one off the hunger counter instead of clearing it *)
feed_pet_decrement(s) ==
    IF s.is_walking
    THEN s
    ELSE LET s1 == [s EXCEPT !.hunger = IF @ > 0 THEN @ - 1 ELSE 0,
                             !.is_hungry = FALSE,
                             !.is_walking = FALSE, !.fish = <<>>]
         IN IF s1.direction = 1
            THEN set_animation(s1, "idle_r")
            ELSE set_animation(s1, "idle_l")

(* mutant: feeding clears is_hungry and the fish but leaves the counter *)
feed_pet_keep_hunger(s) ==
    IF s.is_walking
    THEN s
    ELSE LET s1 == [s EXCEPT !.is_hungry = FALSE,
                             !.is_walking = FALSE, !.fish = <<>>]
         IN IF s1.direction = 1
            THEN set_animation(s1, "idle_r")
            ELSE set_animation(s1, "idle_l")

(* mutant: feeding is not refused while the pet walks *)
feed_pet_no_lockout(s) ==
    LET s1 == [s EXCEPT !.hunger = 0, !.is_hungry = FALSE,
                        !.is_walking = FALSE, !.fish = <<>>]
    IN IF s1.direction = 1
       THEN set_animation(s1, "idle_r")
       ELSE set_animation(s1, "idle_l")

feed_pet(s) ==
    IF s.is_walking
    THEN s
    ELSE LET s1 == [s EXCEPT !.hunger = 0, !.is_hungry = FALSE,
                             !.is_walking = FALSE, !.fish = <<>>]
         IN IF s1.direction = 1
            THEN set_animation(s1, "idle_r")
            ELSE set_animation(s1, "idle_l")

(* mutant: rectangles that only touch along an edge count as intersecting *)
intersects_touching(r1, r2) ==
    /\ r1.w > 0 /\ r1.h > 0 /\ r2.w > 0 /\ r2.h > 0
    /\ r1.x <= r2.x + r2.w
    /\ r2.x <= r1.x + r1.w
    /\ r1.y <= r2.y + r2.h
    /\ r2.y <= r1.y + r1.h

(* QRect.intersects: the pixel ranges overlap on both axes *)
intersects(r1, r2) ==
    /\ r1.w > 0 /\ r1.h > 0 /\ r2.w > 0 /\ r2.h > 0
    /\ r1.x <= r2.x + r2.w - 1
    /\ r2.x <= r1.x + r1.w - 1
    /\ r1.y <= r2.y + r2.h - 1
    /\ r2.y <= r1.y + r1.h - 1

fish_rect(s) ==
    [x |-> s.fish[1].x, y |-> s.fish[1].y,
     w |-> s.fish[1].size, h |-> s.fish[1].size]

cat_rect(s) == [x |-> s.x, y |-> s.y, w |-> Width(s), h |-> Height(s)]

(* QApplication.primaryScreen().geometry() as a rectangle *)
screen_rect == [x |-> 0, y |-> 0, w |-> ScreenW, h |-> ScreenH]

check_fish_collision(s) ==
    IF s.fish # <<>> /\ s.is_hungry
    THEN IF intersects(fish_rect(s), cat_rect(s)) THEN feed_pet(s) ELSE s
    ELSE s

min_x(s) == Max(0, s.x - max_distance)
max_x(s) == Min(ScreenW - Width(s), s.x + max_distance)
min_y(s) == Max(0, s.y - max_distance)
max_y(s) == Min(ScreenH - Height(s), s.y + max_distance)

(* skip: random.random() > 0.3;  tx, ty: the two random.randint results *)
random_walk(s, skip, tx, ty) ==
    IF s.is_hungry \/ s.is_walking THEN s
    ELSE IF skip THEN s
    ELSE IF min_x(s) > max_x(s) THEN abort(s)
    ELSE IF min_y(s) > max_y(s) THEN abort([s EXCEPT !.target_x = tx])
    ELSE LET s1 == [s EXCEPT !.target_x = tx, !.target_y = ty]
             s2 == IF tx < s.x
                   THEN set_animation([s1 EXCEPT !.direction = -1], "walk_l")
                   ELSE set_animation([s1 EXCEPT !.direction = 1], "walk_r")
         IN [s2 EXCEPT !.is_walking = TRUE]

(* floor(walk_speed * |d| / distance), distance = sqrt(dx^2 + dy^2) > 0 *)
StepFloor(d, dx, dy) ==
    CHOOSE k \in 0..walk_speed :
        /\ Sq(k) * (Sq(dx) + Sq(dy)) <= Sq(walk_speed * d)
        /\ Sq(k + 1) * (Sq(dx) + Sq(dy)) > Sq(walk_speed * d)

(* whether (d / distance) * walk_speed is a whole number *)
StepIsWhole(d, dx, dy) ==
    Sq(StepFloor(d, dx, dy)) * (Sq(dx) + Sq(dy)) = Sq(walk_speed * d)

(* mutant: the step is taken away from the target *)
stepped_away(current, d, dx, dy) ==
    IF d > 0 THEN current - StepFloor(d, dx, dy)
    ELSE current + StepFloor(d, dx, dy)

(* int(current + (d / distance) * walk_speed): the float sum truncated *)
(* toward zero, d being the offset to the target on this axis          *)
stepped(current, d, dx, dy) ==
    LET k == StepFloor(d, dx, dy)
        floor_sum == IF d > 0 THEN current + k ELSE current - k - 1
    IN IF StepIsWhole(d, dx, dy)
       THEN (IF d > 0 THEN current + k ELSE current - k)
       ELSE (IF floor_sum >= 0 THEN floor_sum ELSE floor_sum + 1)

(* mutant: the pet counts as off screen as soon as its box sticks out *)
offscreen_partly(s) ==
    \/ s.x < 0
    \/ s.x + Width(s) > ScreenW
    \/ s.y < 0
    \/ s.y + Height(s) > ScreenH

offscreen(s) ==
    \/ s.x < -Width(s)
    \/ s.x > ScreenW
    \/ s.y < -Height(s)
    \/ s.y > ScreenH

(* mutant: a pet that arrives is moved onto its target but keeps walking *)
update_position_never_idle(s) ==
    IF ~s.is_walking THEN s
    ELSE LET s0 == IF offscreen(s) THEN [s EXCEPT !.was_offscreen = TRUE] ELSE s
             dx == s.target_x - s.x
             dy == s.target_y - s.y
         IN IF Sq(dx) + Sq(dy) < Sq(walk_speed)
            THEN [s0 EXCEPT !.x = s.target_x, !.y = s.target_y]
            ELSE LET s1 == IF dx < 0 /\ s0.direction = 1
                           THEN set_animation([s0 EXCEPT !.direction = -1], "walk_l")
                           ELSE IF dx > 0 /\ s0.direction = -1
                           THEN set_animation([s0 EXCEPT !.direction = 1], "walk_r")
                           ELSE s0
                 IN [s1 EXCEPT !.x = stepped(s.x, dx, dx, dy),
                               !.y = stepped(s.y, dy, dx, dy)]

update_position(s) ==
    IF ~s.is_walking THEN s
    ELSE LET s0 == IF offscreen(s) THEN [s EXCEPT !.was_offscreen = TRUE] ELSE s
             dx == s.target_x - s.x
             dy == s.target_y - s.y
         IN IF Sq(dx) + Sq(dy) < Sq(walk_speed)
            THEN LET s1 == [s0 EXCEPT !.x = s.target_x, !.y = s.target_y,
                                      !.is_walking = FALSE]
                 IN IF s1.direction = 1
                    THEN set_animation(s1, "idle_r")
                    ELSE set_animation(s1, "idle_l")
            ELSE IF Sq(dx) + Sq(dy) > 0
            THEN LET s1 == IF dx < 0 /\ s0.direction = 1
                           THEN set_animation([s0 EXCEPT !.direction = -1], "walk_l")
                           ELSE IF dx > 0 /\ s0.direction = -1
                           THEN set_animation([s0 EXCEPT !.direction = 1], "walk_r")
                           ELSE s0
                 IN [s1 EXCEPT !.x = stepped(s.x, dx, dx, dy),
                               !.y = stepped(s.y, dy, dx, dy)]
            ELSE s0

(* mutant: the dash does not wait for was_offscreen *)
attention_seek_always(s, ry) ==
    IF ~s.is_hungry /\ ~s.is_walking
    THEN [s EXCEPT !.x = -Width(s), !.y = ry, !.was_offscreen = FALSE,
                   !.single_shots = @ + 1]
    ELSE s

(* ry: the random.randint(0, screen.height() - self.height()) result *)
attention_seek(s, ry) ==
    IF ~s.is_hungry /\ ~s.is_walking /\ s.was_offscreen
    THEN IF 0 > ScreenH - Height(s)
         THEN abort(s)
         ELSE [s EXCEPT !.x = -Width(s), !.y = ry, !.was_offscreen = FALSE,
                        !.single_shots = @ + 1]
    ELSE s

walk_back_for_attention(s) ==
    [set_animation([s EXCEPT !.target_x = ScreenW \div 2,
                             !.target_y = ScreenH \div 2,
                             !.direction = 1], "walk_r")
        EXCEPT !.is_walking = TRUE]

(* delta = event.globalPos() - self.old_pos; the anchor old_pos is not kept *)
(* in the model, the delta is the input                                    *)
mouseMoveEvent(s, delta_x, delta_y) ==
    [s EXCEPT !.x = @ + delta_x, !.y = @ + delta_y]

(* Fish handlers; the fish is s.fish[1] *)
fish_mousePressEvent(s, left_button) ==
    IF left_button THEN [s EXCEPT !.fish[1].being_dragged = TRUE] ELSE s

fish_mouseMoveEvent(s, delta_x, delta_y) ==
    IF s.fish[1].being_dragged
    THEN [s EXCEPT !.fish[1].x = @ + delta_x, !.fish[1].y = @ + delta_y]
    ELSE s

fish_mouseReleaseEvent(s) == [s EXCEPT !.fish[1].being_dragged = FALSE]

----------------------------------------------------------------------------
(* The state after VirtualPet.__init__ *)

InitPet(x0, y0) ==
    [x |-> x0, y |-> y0,
     hunger |-> 0, is_hungry |-> FALSE, direction |-> 1,
     is_walking |-> FALSE, target_x |-> 0, target_y |-> 0,
     was_offscreen |-> FALSE, fish |-> <<>>, scale_factor |-> 1,
     current_animator |-> "idle_l",
     current_frame |-> [n \in AnimNames |->
                           IF n = "idle_l"
                           THEN next_frame(reset).current_frame
                           ELSE reset],
     single_shots |-> 0, aborted |-> FALSE]

NoTrip == [ticks |-> 0, x0 |-> 0, y0 |-> 0]

(* the attention timer has just been started, no single shot is pending *)
NoClock == [attention_timer |-> attention_interval, single_shot |-> <<>>]

Init ==
    /\ \E x0 \in RandInt(100, 500, InitXs), y0 \in RandInt(100, 400, InitYs) :
           pet = InitPet(x0, y0)
    /\ dragging = FALSE
    /\ hunger_ticks = 0
    /\ anim_ticks = 0
    /\ trip = NoTrip
    /\ clock = NoClock

----------------------------------------------------------------------------
(* Actions: one per timer callback or input event *)

Animate ==
    /\ ~pet.aborted
    /\ anim_ticks < MaxAnimTicks
    /\ pet' = animate(pet)
    /\ anim_ticks' = anim_ticks + 1
    /\ UNCHANGED <<dragging, hunger_ticks, trip, clock>>

UpdatePosition ==
    /\ ~pet.aborted
    /\ pet' = update_position(pet)
    /\ UNCHANGED <<dragging, hunger_ticks, anim_ticks, trip, clock>>

FishChoices(s, picks, extent) ==
    IF s.fish = <<>>
          /\ fish_inset <= extent - base_size * s.scale_factor - fish_inset
    THEN RandInt(fish_inset, extent - base_size * s.scale_factor - fish_inset, picks)
    ELSE {0}

IncreaseHunger ==
    /\ ~pet.aborted
    /\ pet.hunger < MaxHunger
    /\ \E fish_x \in FishChoices(pet, FishXs, ScreenW),
          fish_y \in FishChoices(pet, FishYs, ScreenH) :
           pet' = increase_hunger(pet, fish_x, fish_y)
    /\ hunger_ticks' = hunger_ticks + 1
    /\ UNCHANGED <<dragging, anim_ticks, trip, clock>>

CheckFishCollision ==
    /\ ~pet.aborted
    /\ pet' = check_fish_collision(pet)
    /\ hunger_ticks' = IF pet.is_hungry /\ ~pet'.is_hungry THEN 0 ELSE hunger_ticks
    /\ UNCHANGED <<dragging, anim_ticks, trip, clock>>

TargetChoices(lo, hi, picks) ==
    IF lo <= hi THEN RandInt(lo, hi, picks) ELSE {0}

RandomWalk ==
    /\ ~pet.aborted
    /\ \E skip \in BOOLEAN,
          tx \in TargetChoices(min_x(pet), max_x(pet), WalkXs),
          ty \in TargetChoices(min_y(pet), max_y(pet), WalkYs) :
           pet' = random_walk(pet, skip, tx, ty)
    /\ UNCHANGED <<dragging, hunger_ticks, anim_ticks, trip, clock>>

AttentionSeek ==
    /\ ~pet.aborted
    /\ pet.single_shots < MaxPending
    /\ \E ry \in TargetChoices(0, ScreenH - Height(pet), DashYs) :
           pet' = attention_seek(pet, ry)
    /\ UNCHANGED <<dragging, hunger_ticks, anim_ticks, trip, clock>>

(* the QTimer.singleShot(1000, ...) scheduled by attention_seek fires *)
WalkBackForAttention ==
    /\ ~pet.aborted
    /\ pet.single_shots > 0
    /\ pet' = [walk_back_for_attention(pet) EXCEPT !.single_shots = @ - 1]
    /\ UNCHANGED <<dragging, hunger_ticks, anim_ticks, trip, clock>>

MousePress ==
    /\ ~pet.aborted
    /\ ~dragging
    /\ dragging' = TRUE
    /\ UNCHANGED <<pet, hunger_ticks, anim_ticks, trip, clock>>

MouseMove ==
    /\ ~pet.aborted
    /\ dragging
    /\ \E spot \in PetDragSpots :
           pet' = mouseMoveEvent(pet, spot[1] - pet.x, spot[2] - pet.y)
    /\ UNCHANGED <<dragging, hunger_ticks, anim_ticks, trip, clock>>

MouseRelease ==
    /\ ~pet.aborted
    /\ dragging
    /\ dragging' = FALSE
    /\ UNCHANGED <<pet, hunger_ticks, anim_ticks, trip, clock>>

FishMousePress ==
    /\ ~pet.aborted
    /\ pet.fish # <<>>
    /\ ~pet.fish[1].being_dragged
    /\ \E left_button \in BOOLEAN : pet' = fish_mousePressEvent(pet, left_button)
    /\ UNCHANGED <<dragging, hunger_ticks, anim_ticks, trip, clock>>

(* the user drags the fish onto the pet's home place, or back to where it *)
(* was spawned                                                            *)
FishDragSpots == {<<100, 100>>, <<50, 50>>}

FishMouseMove ==
    /\ ~pet.aborted
    /\ pet.fish # <<>>
    /\ \E spot \in FishDragSpots :
           pet' = fish_mouseMoveEvent(pet, spot[1] - pet.fish[1].x,
                                           spot[2] - pet.fish[1].y)
    /\ UNCHANGED <<dragging, hunger_ticks, anim_ticks, trip, clock>>

FishMouseRelease ==
    /\ ~pet.aborted
    /\ pet.fish # <<>>
    /\ pet.fish[1].being_dragged
    /\ pet' = fish_mouseReleaseEvent(pet)
    /\ UNCHANGED <<dragging, hunger_ticks, anim_ticks, trip, clock>>

Next ==
    \/ Animate
    \/ UpdatePosition
    \/ IncreaseHunger
    \/ CheckFishCollision
    \/ RandomWalk
    \/ AttentionSeek
    \/ WalkBackForAttention
    \/ MousePress
    \/ MouseMove
    \/ MouseRelease
    \/ FishMousePress
    \/ FishMouseMove
    \/ FishMouseRelease

Spec == Init /\ [][Next]_vars

----------------------------------------------------------------------------
(* Claims about the whole pet (checked under Spec) *)

(* C1: counting hunger-timer firings from the start or from the last real   *)
(* feed, the pet is not hungry after the 1st, 2nd and 3rd and is hungry,    *)
(* with a fish, from the 4th on, whatever else runs in between              *)
C1_HungryOnFourthTick ==
    /\ hunger_ticks <= hunger_threshold => ~pet.is_hungry /\ pet.fish = <<>>
    /\ hunger_ticks >= hunger_threshold + 1 => pet.is_hungry /\ pet.fish # <<>>

(* the 4th hunger tick has just made the pet hungry and spawned the fish *)
C1_Witness ==
    /\ hunger_ticks = hunger_threshold + 1
    /\ pet.is_hungry
    /\ pet.fish # <<>>

(* C2: a fish exists exactly when the pet is hungry, there is at most one,  *)
(* and a spawn request made while a fish exists leaves that fish as it is   *)
C2_FishIffHungry ==
    /\ pet.fish # <<>> <=> pet.is_hungry
    /\ Len(pet.fish) <= 1
    /\ pet.fish # <<>> =>
           \A fish_x \in FishXs, fish_y \in FishYs :
               /\ spawn_fish(pet, fish_x, fish_y) = pet
               /\ get_hungry(pet, fish_x, fish_y).fish = pet.fish

(* a further hunger tick asked for a fish after the user had moved the one  *)
(* that exists; it is still where the user put it                           *)
C2_Witness ==
    /\ pet.hunger > hunger_threshold + 1
    /\ pet.fish # <<>>
    /\ pet.fish[1].x = 100 /\ pet.fish[1].y = 100

(* C3, as stated: from any reachable state two calls of feed_pet leave      *)
(* hunger 0, not hungry, no fish, and the second call changes nothing       *)
C3_FeedTwiceAlwaysFed ==
    LET s1 == feed_pet(pet)
        s2 == feed_pet(s1)
    IN /\ s2.hunger = 0 /\ ~s2.is_hungry /\ s2.fish = <<>>
       /\ s2 = s1

(* C3, amended: from any reachable state the second of two feed_pet calls   *)
(* changes nothing, and from any reachable state in which the pet is not    *)
(* walking the two calls leave hunger 0, not hungry, no fish                *)
C3_FeedIdempotent ==
    LET s1 == feed_pet(pet)
        s2 == feed_pet(s1)
    IN /\ s2 = s1
       /\ ~pet.is_walking => s2.hunger = 0 /\ ~s2.is_hungry /\ s2.fish = <<>>

(* a hungry pet that stands still with its fish on it: feeding changes it *)
C3_Witness ==
    /\ ~pet.is_walking /\ pet.is_hungry /\ pet.hunger > hunger_threshold
    /\ pet.fish # <<>>
    /\ intersects(fish_rect(pet), cat_rect(pet))

(* the fields a walk start writes *)
WalkFields(s) ==
    <<s.target_x, s.target_y, s.is_walking, s.direction,
      s.current_animator, s.current_frame>>

(* C4: random_walk and the deferred walk_back_for_attention start a walk    *)
(* only from a state where the pet is neither hungry nor walking, and are   *)
(* no-ops otherwise                                                         *)
C4_WalkStartsOnlyWhenFedAndIdle ==
    [][(RandomWalk \/ WalkBackForAttention) =>
          \/ ~pet.is_hungry /\ ~pet.is_walking
          \/ WalkFields(pet') = WalkFields(pet)]_vars

(* C5: a hungry pet always shows the meow animation *)
C5_HungryShowsMeow == pet.is_hungry => pet.current_animator = "meow"

(* the animation PetController selects for a pet that is not hungry *)
AnimationFor(walking, direction) ==
    IF walking
    THEN (IF direction = 1 THEN "walk_r" ELSE "walk_l")
    ELSE (IF direction = 1 THEN "idle_r" ELSE "idle_l")

(* C6: when the pet is not hungry its animation is the one that is_walking  *)
(* and direction select, the initial state included                         *)
C6_AnimationMatchesMotion ==
    ~pet.is_hungry =>
        pet.current_animator = AnimationFor(pet.is_walking, pet.direction)

(* C7: feed_pet called on a walking pet changes nothing at all, so a        *)
(* collision poll on a walking hungry pet under its fish changes nothing    *)
C7_FeedRefusedWhileWalking ==
    pet.is_walking =>
        /\ feed_pet(pet) = pet
        /\ check_fish_collision(pet) = pet

(* a walking, hungry pet with the fish on it *)
C7_Witness ==
    /\ pet.is_walking /\ pet.is_hungry /\ pet.fish # <<>>
    /\ intersects(fish_rect(pet), cat_rect(pet))

(* a step that performs an attention dash: one more deferred walk-back *)
Dash == pet'.single_shots > pet.single_shots

(* C10: a dash happens only in an attention_seek run from a state with      *)
(* was_offscreen set, not hungry, not walking; it puts the pet at           *)
(* x = -width and clears was_offscreen; an attention_seek run from any      *)
(* other state changes nothing                                              *)
C10_DashOnlyAfterOffscreen ==
    [][/\ Dash =>
            /\ AttentionSeek
            /\ pet.was_offscreen /\ ~pet.is_hungry /\ ~pet.is_walking
            /\ pet'.x = -Width(pet)
            /\ ~pet'.was_offscreen
       /\ (AttentionSeek
             /\ ~(pet.was_offscreen /\ ~pet.is_hungry /\ ~pet.is_walking))
            => pet' = pet]_vars

(* the pet has just dashed: off the left edge, walk-back pending *)
C10_Witness ==
    /\ pet.x = -Width(pet)
    /\ pet.single_shots = 1
    /\ ~pet.was_offscreen
    /\ ~pet.is_walking

(* C12: in every reachable state is_hungry holds iff hunger > 3; a step    *)
(* that takes the pet from hungry to not hungry is a collision poll whose   *)
(* feed_pet call is not refused (the pet is not walking) and leaves hunger  *)
(* 0; every other step (hunger tick, motion tick, random-walk tick,         *)
(* attention tick, walk-back, drag) leaves a hungry pet hungry              *)
C12_HungryUntilFed ==
    /\ [](pet.is_hungry <=> pet.hunger > hunger_threshold)
    /\ [][(pet.is_hungry /\ ~pet'.is_hungry) =>
            /\ CheckFishCollision
            /\ ~pet.is_walking
            /\ pet' = feed_pet(pet)
            /\ pet'.hunger = 0]_vars

(* the pet was hungry long enough to show a meow frame, and has been fed *)
C12_Witness ==
    /\ pet.current_frame["meow"] = 1
    /\ hunger_ticks = 0
    /\ ~pet.is_hungry /\ pet.hunger = 0 /\ pet.fish = <<>>

(* C14: whenever the pet's box does not intersect the screen rectangle     *)
(* (after a motion step, a drag or a dash, Walking or Idle, the boundary   *)
(* positions x = -width and y = -height included), was_offscreen is set    *)
(* already or is set by the motion tick that comes next                    *)
C14_OffscreenSeenByNextTick ==
    ~intersects(cat_rect(pet), screen_rect) =>
        update_position(pet).was_offscreen

(* a step taken while a mouse button is held down on the pet *)
MotionTickInDrag == dragging /\ dragging' /\ UpdatePosition

(* C16: while a drag of the pet is active a motion tick does not move the  *)
(* pet, and a drag move changes the position and nothing else of the pet   *)
C16_DragOverridesMotion ==
    [][/\ MotionTickInDrag => (pet'.x = pet.x /\ pet'.y = pet.y)
       /\ MouseMove => [pet' EXCEPT !.x = pet.x, !.y = pet.y] = pet]_vars

----------------------------------------------------------------------------
(* One walk on its own: the 50 ms movement timer alone, from the state     *)
(* right after a walk was started, with no drag and no new target.         *)

MotionCoords == (-MotionRange) .. MotionRange
MotionTargets == 0 .. MotionRange

(* a walk started by random_walk with the pet at (x0, y0) *)
WalkStarted(x0, y0, tx, ty) == random_walk(InitPet(x0, y0), FALSE, tx, ty)

(* a walk started by walk_back_for_attention with the pet at (x0, y0) *)
WalkBackStarted(x0, y0) == walk_back_for_attention(InitPet(x0, y0))

InitMotion ==
    /\ \/ \E x0 \in MotionCoords, y0 \in MotionCoords,
             tx \in MotionTargets, ty \in MotionTargets :
              /\ pet = WalkStarted(x0, y0, tx, ty)
              /\ trip = [ticks |-> 0, x0 |-> x0, y0 |-> y0]
       \/ \E i \in MotionCoords, j \in MotionCoords :
              /\ pet = WalkBackStarted(ScreenW \div 2 + i, ScreenH \div 2 + j)
              /\ trip = [ticks |-> 0, x0 |-> ScreenW \div 2 + i,
                                      y0 |-> ScreenH \div 2 + j]
       \/ /\ pet = WalkStarted(0, 0, 100, 0)
          /\ trip = [ticks |-> 0, x0 |-> 0, y0 |-> 0]
    /\ dragging = FALSE
    /\ hunger_ticks = 0
    /\ anim_ticks = 0
    /\ clock = NoClock

MotionTick ==
    /\ pet.is_walking
    /\ pet' = update_position(pet)
    /\ trip' = [trip EXCEPT !.ticks = @ + 1]
    /\ UNCHANGED <<dragging, hunger_ticks, anim_ticks, clock>>

(* the movement timer is periodic: a walking pet keeps getting ticks *)
SpecMotion == InitMotion /\ [][MotionTick]_vars /\ WF_vars(MotionTick)

----------------------------------------------------------------------------
(* Claims about one walk (checked under SpecMotion) *)

(* squared Euclidean distance from the pet to its target *)
Dist2(s) == Sq(s.target_x - s.x) + Sq(s.target_y - s.y)

AtTarget(s) == s.x = s.target_x /\ s.y = s.target_y

(* squared Euclidean distance of the walk at its start *)
StartDist2 == Sq(pet.target_x - trip.x0) + Sq(pet.target_y - trip.y0)

(* C8, as stated: every motion tick taken while Walking strictly decreases *)
(* the distance to the target, and the pet ends Idle exactly on the target *)
(* (read for walks that do not start on their target, so that the tick     *)
(* shown is one of a real walk)                                            *)
C8_StrictDecreaseEveryTick ==
    /\ [][(MotionTick /\ StartDist2 > 0) => Dist2(pet') < Dist2(pet)]_vars
    /\ <>[](~pet.is_walking /\ AtTarget(pet))

(* C8, amended: a motion tick taken while Walking strictly decreases the    *)
(* distance to the target whenever that distance is not already zero, and   *)
(* leaves it zero otherwise (the last tick of a walk that has landed on its *)
(* target only snaps and goes Idle); the pet ends Idle exactly on the target *)
C8_DecreaseUntilLanded ==
    /\ [][MotionTick =>
            /\ Dist2(pet) > 0 => Dist2(pet') < Dist2(pet)
            /\ Dist2(pet) = 0 => Dist2(pet') = 0]_vars
    /\ <>[](~pet.is_walking /\ AtTarget(pet))

(* a diagonal walk of several ticks has ended Idle on its target *)
C8_Witness ==
    /\ ~pet.is_walking /\ AtTarget(pet)
    /\ trip.ticks >= 3
    /\ trip.x0 < 0 /\ trip.y0 # pet.target_y /\ pet.target_x > 0

(* the walk of the spec's scenario: (0,0) to (100,0) *)
Scenario == trip.x0 = 0 /\ trip.y0 = 0 /\ pet.target_x = 100 /\ pet.target_y = 0

(* C9, as stated: a walk starting at distance d is Idle within ceil(d / s)  *)
(* motion ticks (read for d > 0); (0,0) to (100,0) at speed 2 is Idle at    *)
(* (100,0), showing idle_r, after exactly 50 ticks                          *)
C9_CeilBound ==
    /\ (StartDist2 > 0 /\ Sq(walk_speed * trip.ticks) >= StartDist2)
           => ~pet.is_walking
    /\ (Scenario /\ trip.ticks = 50) =>
           /\ pet.x = 100 /\ pet.y = 0
           /\ ~pet.is_walking
           /\ pet.current_animator = "idle_r"

(* C9, amended: a walk starting at offset (dx, dy) from its target is Idle  *)
(* on the target within max(|dx|, |dy|) + 1 motion ticks; (0,0) to (100,0)  *)
(* at speed 2 is at (100,0) after exactly 50 ticks but still Walking with   *)
(* walk_r, and the 51st tick makes it Idle with idle_r                      *)
C9_ChebyshevBound ==
    /\ trip.ticks >= Max(Abs(pet.target_x - trip.x0),
                         Abs(pet.target_y - trip.y0)) + 1
           => ~pet.is_walking /\ AtTarget(pet)
    /\ (Scenario /\ trip.ticks = 50) =>
           /\ pet.x = 100 /\ pet.y = 0
           /\ pet.is_walking
           /\ pet.current_animator = "walk_r"
    /\ (Scenario /\ trip.ticks = 51) =>
           /\ pet.x = 100 /\ pet.y = 0
           /\ ~pet.is_walking
           /\ pet.current_animator = "idle_r"

(* the scenario walk has taken its 51st tick *)
C9_Witness == Scenario /\ trip.ticks = 51 /\ ~pet.is_walking

----------------------------------------------------------------------------
(* The collision poll on its own: the 100 ms fish_check timer alone, from  *)
(* a hungry pet whose fish the user has dropped at a place round the pet.  *)

(* the pet after the four hunger ticks that make it hungry, the fish spawned *)
(* at (fish_x, fish_y)                                                      *)
FourHungerTicks(s, fish_x, fish_y) ==
    increase_hunger(
        increase_hunger(
            increase_hunger(
                increase_hunger(s, fish_x, fish_y),
                fish_x, fish_y),
            fish_x, fish_y),
        fish_x, fish_y)

(* the user presses the fish, drags it to (to_x, to_y) and lets it go *)
FishDraggedTo(s, to_x, to_y) ==
    fish_mouseReleaseEvent(
        fish_mouseMoveEvent(fish_mousePressEvent(s, TRUE),
                            to_x - s.fish[1].x, to_y - s.fish[1].y))

(* Offsets of the fish from the pet on one axis, the fish being `small` and *)
(* the pet `large` pixels long: a gap of one pixel, touching, and one pixel *)
(* of overlap on either side, and the fish inside the pet (at its near     *)
(* edge, in its middle, at its far edge)                                    *)
EdgeOffsets(small, large) ==
    {-small - 1, -small, -small + 1,
     0, (large - small) \div 2, large - small,
     large - 1, large, large + 1}

InitCollision ==
    /\ \E x0 \in RandInt(100, 500, InitXs), y0 \in RandInt(100, 400, InitYs) :
          \/ pet = InitPet(x0, y0) /\ hunger_ticks = 0
          \/ \E walking \in BOOLEAN, fish_x \in FishXs, fish_y \in FishYs,
                off_x \in EdgeOffsets(base_size, frame_width),
                off_y \in EdgeOffsets(base_size, frame_height) :
                 /\ pet = FishDraggedTo(
                              FourHungerTicks(
                                  IF walking
                                  THEN WalkStarted(x0, y0, x0, y0)
                                  ELSE InitPet(x0, y0),
                                  fish_x, fish_y),
                              x0 + off_x, y0 + off_y)
                 /\ hunger_ticks = hunger_threshold + 1
    /\ dragging = FALSE
    /\ anim_ticks = 0
    /\ trip = NoTrip
    /\ clock = NoClock

SpecCollision == InitCollision /\ [][CheckFishCollision]_vars

----------------------------------------------------------------------------
(* Claims about the collision poll (checked under SpecCollision) *)

(* the pixel ranges [a, a + m) and [b, b + n) share at least one pixel *)
SharePixel(a, m, b, n) == \E p \in a .. (a + m - 1) : b <= p /\ p < b + n

(* C11: the collision poll does what feed_pet does exactly when the pet is  *)
(* hungry, a fish exists, and the pixel ranges of the pet rectangle and of  *)
(* the fish rectangle share a pixel on the x axis and on the y axis; in any *)
(* other case (touching along an edge, or disjoint on an axis) it changes   *)
(* nothing                                                                  *)
C11_FeedIffHungryFishOverlap ==
    check_fish_collision(pet) =
        IF /\ pet.is_hungry
           /\ pet.fish # <<>>
           /\ SharePixel(pet.x, Width(pet), pet.fish[1].x, pet.fish[1].size)
           /\ SharePixel(pet.y, Height(pet), pet.fish[1].y, pet.fish[1].size)
        THEN feed_pet(pet)
        ELSE pet

(* a poll has fed the pet: it was hungry with its fish on it, and now is  *)
(* not hungry, with hunger 0 and no fish                                  *)
C11_Witness ==
    /\ hunger_ticks = 0
    /\ pet.hunger = 0 /\ ~pet.is_hungry /\ pet.fish = <<>>
    /\ pet.current_animator = "idle_r"

----------------------------------------------------------------------------
(* The choice of a walk target on its own: the 15 s walk timer alone, from *)
(* a pet at 1x or 2x that the user has dropped somewhere on or off the     *)
(* screen.                                                                 *)

(* Places on one axis the pet is dropped at, the screen being `extent` and *)
(* the pet `size` pixels long: the farthest places off either end from     *)
(* which the range of targets is not empty and the places one pixel        *)
(* farther, partly and wholly off either end, and on the screen            *)
DropPlaces(extent, size) ==
    {-max_distance - 1, -max_distance, -size - 1, -size \div 2,
     0, (extent - size) \div 2, extent - size,
     extent - size \div 2, extent + 1,
     extent - size + max_distance, extent - size + max_distance + 1}

(* the user picks a scale in the tray menu and drags the pet to (to_x, to_y) *)
PetDroppedAt(s, scale, to_x, to_y) ==
    mouseMoveEvent(set_scale(s, scale), to_x - s.x, to_y - s.y)

InitTargets ==
    /\ \E x0 \in RandInt(100, 500, InitXs), y0 \in RandInt(100, 400, InitYs),
          scale \in Scales :
          \E to_x \in DropPlaces(ScreenW, frame_width * scale),
             to_y \in DropPlaces(ScreenH, frame_height * scale) :
              pet = PetDroppedAt(InitPet(x0, y0), scale, to_x, to_y)
    /\ dragging = FALSE
    /\ hunger_ticks = 0
    /\ anim_ticks = 0
    /\ trip = NoTrip
    /\ clock = NoClock

(* random.randint(lo, hi) restricted to the ends and the middle of the range *)
EndPicks(lo, hi) == IF lo <= hi THEN {lo, (lo + hi) \div 2, hi} ELSE {0}

(* the walk timer fires *)
PickTarget ==
    /\ ~pet.aborted
    /\ \E skip \in BOOLEAN,
          tx \in EndPicks(min_x(pet), max_x(pet)),
          ty \in EndPicks(min_y(pet), max_y(pet)) :
           pet' = random_walk(pet, skip, tx, ty)
    /\ UNCHANGED <<dragging, hunger_ticks, anim_ticks, trip, clock>>

SpecTargets == InitTargets /\ [][PickTarget]_vars

----------------------------------------------------------------------------
(* Claims about the choice of a walk target (checked under SpecTargets) *)

(* C13: wherever the pet has been dragged to, random_walk never fails with *)
(* an empty random range, and the target of the walk it starts lies within *)
(* 200 px of the pet on each axis and inside                               *)
(* [0, screen_width - width] x [0, screen_height - height]                 *)
C13_TargetAlwaysClamped ==
    /\ ~pet.aborted
    /\ pet.is_walking =>
           /\ Abs(pet.target_x - pet.x) <= max_distance
           /\ Abs(pet.target_y - pet.y) <= max_distance
           /\ 0 <= pet.target_x /\ pet.target_x <= ScreenW - Width(pet)
           /\ 0 <= pet.target_y /\ pet.target_y <= ScreenH - Height(pet)

----------------------------------------------------------------------------
(* The attention cycle in time: the attention timer (every 60000 ms) and   *)
(* the single shot that defers the walk-back (1000 ms) fire when their     *)
(* time is up; the other timers and the mouse may act at any moment (the   *)
(* animation timer, which no flag of the cycle reads, is left out).        *)

(* the times left on the armed timers *)
TimesLeft ==
    {clock.attention_timer}
        \cup {clock.single_shot[i] : i \in DOMAIN clock.single_shot}

(* time passes until the timer that is due first is due; Qt fires no timer *)
(* before its time and lets none wait while the event loop is free         *)
Elapse ==
    /\ ~pet.aborted
    /\ LET left == CHOOSE d \in TimesLeft : \A e \in TimesLeft : d <= e
       IN /\ left > 0
          /\ clock' = [attention_timer |-> clock.attention_timer - left,
                       single_shot |->
                           IF clock.single_shot = <<>> THEN <<>>
                           ELSE [i \in DOMAIN clock.single_shot |->
                                    clock.single_shot[i] - left]]
    /\ UNCHANGED <<pet, dragging, hunger_ticks, anim_ticks, trip>>

(* the attention timer fires, and is due again after its interval; a dash *)
(* starts a single shot                                                   *)
AttentionTimeout ==
    /\ ~pet.aborted
    /\ clock.attention_timer = 0
    /\ \E ry \in TargetChoices(0, ScreenH - Height(pet), DashYs) :
           pet' = attention_seek(pet, ry)
    /\ clock' = [attention_timer |-> attention_interval,
                 single_shot |->
                     IF pet'.single_shots > pet.single_shots
                     THEN Append(clock.single_shot, walk_back_delay)
                     ELSE clock.single_shot]
    /\ UNCHANGED <<dragging, hunger_ticks, anim_ticks, trip>>

(* the single shot that is due fires *)
WalkBackTimeout ==
    /\ ~pet.aborted
    /\ clock.single_shot # <<>>
    /\ Head(clock.single_shot) = 0
    /\ pet' = [walk_back_for_attention(pet) EXCEPT !.single_shots = @ - 1]
    /\ clock' = [clock EXCEPT !.single_shot = Tail(@)]
    /\ UNCHANGED <<dragging, hunger_ticks, anim_ticks, trip>>

NextAttention ==
    \/ Elapse
    \/ AttentionTimeout
    \/ WalkBackTimeout
    \/ UpdatePosition
    \/ IncreaseHunger
    \/ CheckFishCollision
    \/ RandomWalk
    \/ MousePress
    \/ MouseMove
    \/ MouseRelease
    \/ FishMousePress
    \/ FishMouseMove
    \/ FishMouseRelease

SpecAttention == Init /\ [][NextAttention]_vars

----------------------------------------------------------------------------
(* Claims about the attention cycle in time (checked under SpecAttention) *)

(* C15: at most one deferred walk-back is pending at any time, and an      *)
(* attention dash begins only when none is pending, with the attention     *)
(* check every 60 s and the walk-back deferred by 1000 ms                  *)
C15_AttentionCyclesDoNotOverlap ==
    /\ [](pet.single_shots <= 1 /\ Len(clock.single_shot) = pet.single_shots)
    /\ [][Dash => pet.single_shots = 0]_vars

(* a walk-back is pending and the pet is again off-screen-marked, idle and *)
(* not hungry: the flags would let a second dash begin, the timers do not  *)
C15_Witness ==
    /\ pet.single_shots = 1
    /\ pet.was_offscreen /\ ~pet.is_walking /\ ~pet.is_hungry
    /\ clock.attention_timer > 0

----------------------------------------------------------------------------
(* The animators on their own: the 100 ms animation timer and the          *)
(* animation switches that the other handlers make, in any order.          *)

AnimationTick ==
    /\ pet' = animate(pet)
    /\ anim_ticks' = IF anim_ticks < frame_count THEN anim_ticks + 1
                     ELSE anim_ticks
    /\ UNCHANGED <<dragging, hunger_ticks, trip, clock>>

(* a handler switches the animation: random_walk, update_position,        *)
(* get_hungry, feed_pet or walk_back_for_attention calls set_animation    *)
SetAnimation ==
    /\ \E name \in AnimNames : pet' = set_animation(pet, name)
    /\ anim_ticks' = 0
    /\ UNCHANGED <<dragging, hunger_ticks, trip, clock>>

SpecAnimation == Init /\ [][AnimationTick \/ SetAnimation]_vars

----------------------------------------------------------------------------
(* Claims about the animators (checked under SpecAnimation) *)

(* C17: every animation's cursor is always in 0 .. frame_count - 1;        *)
(* next_frame returns the frame at the cursor and moves the cursor of the  *)
(* current animation on by one modulo frame_count, leaving the others;     *)
(* set_animation sets the cursor of the animation it selects to 0,         *)
(* leaving the others                                                      *)
C17_CursorsCycle ==
    /\ [](\A n \in AnimNames : pet.current_frame[n] \in 0 .. (frame_count - 1))
    /\ [](next_frame(pet.current_frame[pet.current_animator]).frame
              = pet.current_frame[pet.current_animator])
    /\ [][AnimationTick =>
            /\ pet'.current_animator = pet.current_animator
            /\ pet'.current_frame =
                   [pet.current_frame EXCEPT
                       ![pet.current_animator] = (@ + 1) % frame_count]]_vars
    /\ [][SetAnimation =>
            pet'.current_frame =
                [pet.current_frame EXCEPT ![pet'.current_animator] = 0]]_vars

(* the meow animation has run through all its frames since it was         *)
(* selected and its cursor is back at 0, the cursors of two animations    *)
(* shown before it are where they were left                               *)
C17_Witness ==
    /\ pet.current_animator = "meow"
    /\ anim_ticks = frame_count
    /\ pet.current_frame["meow"] = 0
    /\ pet.current_frame["idle_l"] = 1
    /\ pet.current_frame["walk_r"] = 5

----------------------------------------------------------------------------
(* The pet left alone: every timer, the tray menu's scale and the mouse on *)
(* the fish, but no drag of the pet, from the start or from the moment the *)
(* user has let go of a pet that was off the screen during a walk.         *)

(* The value the model lets random.randint return here: in range at 1x   *)
(* and at 2x                                                              *)
NearPicks == {40}

(* the pet was walking when the user dragged it wholly off the right edge, *)
(* a motion tick ran there, and the user dropped it on its target          *)
Excursion(x0, y0) ==
    LET started == WalkStarted(x0, y0, x0, y0)
        away == update_position(mouseMoveEvent(started, ScreenW + 2 - x0, 0))
    IN update_position(mouseMoveEvent(away, x0 - away.x, y0 - away.y))

InitUndragged ==
    /\ \E x0 \in RandInt(100, 500, InitXs), y0 \in RandInt(100, 400, InitYs) :
           pet \in {InitPet(x0, y0), Excursion(x0, y0)}
    /\ dragging = FALSE
    /\ hunger_ticks = 0
    /\ anim_ticks = 0
    /\ trip = NoTrip
    /\ clock = NoClock

(* the user picks a scale in the tray menu *)
SetScale ==
    /\ ~pet.aborted
    /\ \E scale \in Scales : pet' = set_scale(pet, scale)
    /\ UNCHANGED <<dragging, hunger_ticks, anim_ticks, trip, clock>>

RandomWalkNear ==
    /\ ~pet.aborted
    /\ \E skip \in BOOLEAN,
          tx \in TargetChoices(min_x(pet), max_x(pet), NearPicks),
          ty \in TargetChoices(min_y(pet), max_y(pet), NearPicks) :
           pet' = random_walk(pet, skip, tx, ty)
    /\ UNCHANGED <<dragging, hunger_ticks, anim_ticks, trip, clock>>

(* the attention timer comes due only after the single shot of the dash   *)
(* before it has run                                                      *)
AttentionSeekNear ==
    /\ ~pet.aborted
    /\ pet.single_shots = 0
    /\ \E ry \in TargetChoices(0, ScreenH - Height(pet), NearPicks) :
           pet' = attention_seek(pet, ry)
    /\ UNCHANGED <<dragging, hunger_ticks, anim_ticks, trip, clock>>

(* the user drags the fish to one of its places and lets it go *)
FishDrop ==
    /\ ~pet.aborted
    /\ pet.fish # <<>>
    /\ \E spot \in FishDragSpots : pet' = FishDraggedTo(pet, spot[1], spot[2])
    /\ UNCHANGED <<dragging, hunger_ticks, anim_ticks, trip, clock>>

NextUndragged ==
    \/ UpdatePosition
    \/ IncreaseHunger
    \/ CheckFishCollision
    \/ RandomWalkNear
    \/ AttentionSeekNear
    \/ WalkBackForAttention
    \/ SetScale
    \/ FishDrop

(* the movement timer and the fish_check timer are periodic: a tick that  *)
(* would change the state is not put off for ever                         *)
SpecUndragged ==
    /\ InitUndragged
    /\ [][NextUndragged]_vars
    /\ WF_vars(UpdatePosition)
    /\ WF_vars(CheckFishCollision)

----------------------------------------------------------------------------
(* Claims about the pet left alone (checked under SpecUndragged) *)

HungryUnderFish ==
    /\ pet.is_hungry
    /\ pet.fish # <<>>
    /\ intersects(fish_rect(pet), cat_rect(pet))

Fed == ~pet.is_hungry /\ pet.hunger = 0 /\ pet.fish = <<>>

(* C18: with the pet not dragged, if from some moment on the pet is hungry *)
(* and its fish overlaps it for as long as it is hungry, the pet is fed    *)
(* after that moment                                                       *)
C18_HungryUnderFishIsFed == []([]HungryUnderFish => <>Fed)

(* the poll has fed a pet that never walked: it stands where it started,   *)
(* its target was never set, and only feeding shows it the idle_r strip    *)
C18_Witness ==
    /\ Fed
    /\ hunger_ticks = 0
    /\ pet.target_x = 0 /\ pet.target_y = 0
    /\ pet.x > 0 /\ pet.y > 0
    /\ pet.current_animator = "idle_r"
    /\ ~pet.is_walking

(* the pet of size w x h lies on the screen, walks (if it walks) to a     *)
(* place on the screen, has not been seen off screen and has no walk-back *)
(* pending                                                                *)
OnScreen(s, w, h) ==
    /\ ~s.aborted
    /\ 0 <= s.x /\ s.x <= ScreenW - w
    /\ 0 <= s.y /\ s.y <= ScreenH - h
    /\ s.is_walking => /\ 0 <= s.target_x /\ s.target_x <= ScreenW - w
                       /\ 0 <= s.target_y /\ s.target_y <= ScreenH - h
    /\ ~s.was_offscreen
    /\ s.single_shots = 0

(* C19 as stated: with no drag of the pet, a pet that lies within          *)
(* [0, screen_width - width] x [0, screen_height - height] stays there,    *)
(* was_offscreen stays false and no dash occurs                            *)
C19_NeverLeavesScaledBounds ==
    [][OnScreen(pet, Width(pet), Height(pet)) =>
          (OnScreen(pet', Width(pet'), Height(pet')) /\ ~Dash)]_vars

(* C19: with no drag of the pet, the pet starts within the bounds of its   *)
(* size; a pet within the bounds of the unscaled frame stays within them,  *)
(* was_offscreen stays false and no dash occurs; the bounds of the current *)
(* size are kept by every step that does not enlarge the pet               *)
C19_NeverLeavesScreen ==
    /\ \A x0 \in RandInt(100, 500, InitXs), y0 \in RandInt(100, 400, InitYs) :
           OnScreen(InitPet(x0, y0), Width(InitPet(x0, y0)), Height(InitPet(x0, y0)))
    /\ [][OnScreen(pet, frame_width, frame_height) =>
              (OnScreen(pet', frame_width, frame_height) /\ ~Dash)]_vars
    /\ [][(OnScreen(pet, Width(pet), Height(pet)) /\ Width(pet') <= Width(pet)) =>
              OnScreen(pet', Width(pet'), Height(pet'))]_vars

(* the enlarged pet has walked to the far corner its size allows and      *)
(* stands there idle, never seen off screen                               *)
C19_Witness ==
    /\ OnScreen(pet, Width(pet), Height(pet))
    /\ pet.scale_factor = 2
    /\ pet.x = ScreenW - Width(pet) /\ pet.y = ScreenH - Height(pet)
    /\ pet.target_x = pet.x /\ pet.target_y = pet.y
    /\ ~pet.is_walking

(* C20: with no drag of the pet, was_offscreen, once false (at the start  *)
(* or cleared by a dash), is not set again                                *)
C20_DashDoesNotRearm == [][~pet.was_offscreen => ~pet'.was_offscreen]_vars

====
